---- MODULE Spec2Model ----
(***************************************************************************)
(* Model of the uniform deviate generator ran2() of src/prob/hgb.c and of  *)
(* the way problem() drives it.                                            *)
(*                                                                         *)
(* ran2() keeps its secondary state, its cached value and its shuffle      *)
(* table in function-local statics (one copy per process); the primary     *)
(* state lives in the caller's variable passed by pointer.                 *)
(*                                                                         *)
(* A C `long int` is modelled as a two-limb integer <<h, l>> standing for  *)
(* h * W + l with 0 <= l < W, so that values beyond 32 bits (an LP64       *)
(* build) are representable and 32-bit overflow is observable.             *)
(***************************************************************************)
EXTENDS Integers, Sequences, FiniteSets, TLC

(***************************************************************************)
(* Program constants (hgb.c:454-466)                                       *)
(***************************************************************************)
IM1 == 2147483563
IM2 == 2147483399
IMM1 == IM1 - 1
IA1 == 40014
IA2 == 40692
IQ1 == 53668
IQ2 == 52774
IR1 == 12211
IR2 == 3791
NTAB == 32
NDIV == 1 + IMM1 \div NTAB

(***************************************************************************)
(* long int arithmetic                                                     *)
(***************************************************************************)
W == 2^15

\* the long with the value of the (32-bit) integer n
Long(n) == <<n \div W, n % W>>

\* the value of a long that fits 32 bits
ToInt(a) == a[1] * W + a[2]

\* a is representable as a 32-bit signed long: -2^31 <= a < 2^31
Fits32(a) == a[1] >= -(2^16) /\ a[1] < 2^16

LAdd(a, b) == <<a[1] + b[1] + (a[2] + b[2]) \div W, (a[2] + b[2]) % W>>

LNeg(a) == IF a[2] = 0 THEN <<-a[1], 0>> ELSE <<-a[1] - 1, W - a[2]>>

LSub(a, b) == LAdd(a, LNeg(b))

LLt(a, b) == a[1] < b[1] \/ (a[1] = b[1] /\ a[2] < b[2])

LLe(a, b) == ~LLt(b, a)

\* a * c for a constant 0 <= c < 2^16
LMul(a, c) == <<a[1] * c + (a[2] * c) \div W, (a[2] * c) % W>>

\* a / c of C (truncation toward zero) for a constant 0 < c < 2^16
LDivPos(a, c) == <<a[1] \div c, ((a[1] % c) * W + a[2]) \div c>>

LDiv(a, c) == IF LLt(a, Long(0)) THEN LNeg(LDivPos(LNeg(a), c)) ELSE LDivPos(a, c)

\* quotient and remainder of a >= 0 by a long d > 0, by doubling
RECURSIVE LDivMod(_, _)
LDivMod(a, d) ==
  IF LLt(a, d) THEN <<0, a>>
  ELSE LET qr == LDivMod(a, LAdd(d, d))
       IN  IF LLt(qr[2], d) THEN <<2 * qr[1], qr[2]>>
           ELSE <<2 * qr[1] + 1, LSub(qr[2], d)>>

\* (int)(a / d) of C for a long divisor d > 0
LQuot(a, d) ==
  IF LLt(a, Long(0)) THEN -(LDivMod(LNeg(a), Long(d))[1])
  ELSE LDivMod(a, Long(d))[1]

\* the shapes of a long and of the shuffle table; a loop that tests them on
\* its running values has these evaluated at every iteration
IsLong(x) == Len(x) = 2

IsTable(tab) == DOMAIN tab = 0..(NTAB - 1)

(***************************************************************************)
(* ran2 (hgb.c:477-510)                                                    *)
(***************************************************************************)

\* the intermediate values of one Schrage step x -> IA*(x - k*IQ) - k*IR
\* with k = x/IQ (hgb.c:491-492, 498-499, 501-502), in evaluation order
SchrageTerms(x, IA, IQ, IR) ==
  LET k   == LDiv(x, IQ)
      kq  == LMul(k, IQ)
      rem == LSub(x, kq)
      p   == LMul(rem, IA)
      kr  == LMul(k, IR)
  IN  <<k, kq, rem, p, kr, LSub(p, kr)>>

\* Schrage without the test if (x < 0) x += IM
Schrage_NoWrap(x, IA, IQ, IR, IM) == SchrageTerms(x, IA, IQ, IR)[6]

\* Schrage adding IM whatever the sign
Schrage_AlwaysAdd(x, IA, IQ, IR, IM) == LAdd(SchrageTerms(x, IA, IQ, IR)[6], Long(IM))

\* one recurrence step, with the `if (x < 0) x += IM` that follows it
Schrage(x, IA, IQ, IR, IM) ==
  LET t == SchrageTerms(x, IA, IQ, IR)[6]
  IN  IF LLt(t, Long(0)) THEN LAdd(t, Long(IM)) ELSE t

\* Normalize without the test that replaces 0 by 1
Normalize_NoClamp(x) == LNeg(x)

\* hgb.c:487-488: the seed made positive, 0 replaced by 1
Normalize(x) == IF LLt(LNeg(x), Long(1)) THEN Long(1) ELSE LNeg(x)

\* hgb.c:490-495: the loop for (j=NTAB+7; j>=0; j--), from index j on
\* (x and tab always have their shapes: the loop ends at j < 0)
RECURSIVE LoadTable(_, _, _)
LoadTable(j, x, tab) ==
  IF j < 0 \/ ~IsLong(x) \/ ~IsTable(tab) THEN [idum |-> x, iv |-> tab]
  ELSE LET x1 == Schrage(x, IA1, IQ1, IR1, IM1)
       IN  LoadTable(j - 1, x1, IF j < NTAB THEN [tab EXCEPT ![j] = x1] ELSE tab)

\* Initialize without the assignment idum2=(*idum)
Initialize_KeepIdum2(g) ==
  LET ld == LoadTable(NTAB + 7, Normalize(g.idum), g.iv)
  IN  [idum |-> ld.idum, idum2 |-> g.idum2, iy |-> ld.iv[0], iv |-> ld.iv]

\* Initialize without the assignment iy=iv[0]
Initialize_KeepIy(g) ==
  LET s  == Normalize(g.idum)
      ld == LoadTable(NTAB + 7, s, g.iv)
  IN  [idum |-> ld.idum, idum2 |-> s, iy |-> g.iy, iv |-> ld.iv]

\* Initialize with seven warm-ups: the loop started at j=NTAB+6
Initialize_SevenWarmups(g) ==
  LET s  == Normalize(g.idum)
      ld == LoadTable(NTAB + 6, s, g.iv)
  IN  [idum |-> ld.idum, idum2 |-> s, iy |-> ld.iv[0], iv |-> ld.iv]

\* hgb.c:486-497: the initialization branch; g is the generator state
\* [idum, idum2, iy, iv] on entry
Initialize(g) ==
  LET s  == Normalize(g.idum)
      ld == LoadTable(NTAB + 7, s, g.iv)
  IN  [idum |-> ld.idum, idum2 |-> s, iy |-> ld.iv[0], iv |-> ld.iv]

\* hgb.c:504: j=(int)(iy/NDIV)
SlotIndex(y) == LQuot(y, NDIV)

\* Combine without the correction if (iy < 1) iy += IMM1
Combine_NoCorrection(v, y2) == LSub(v, y2)

\* hgb.c:505,507: iy=iv[j]-idum2; if (iy < 1) iy += IMM1, v being iv[j]
Combine(v, y2) ==
  LET d == LSub(v, y2)
  IN  IF LLt(d, Long(1)) THEN LAdd(d, Long(IMM1)) ELSE d

\* hgb.c:508-509: the returned double.  AM*iy exceeds RNMX = 1-DBL_EPSILON
\* exactly when iy >= IM1; otherwise the value returned is iy/IM1, kept as
\* its numerator.
Deviate(y) == [rnmx |-> LLe(Long(IM1), y), num |-> y]

\* Shuffle refilling the slot with the primary state the call started from
Shuffle_RefillOld(g, x, y2, j, oob) ==
  LET in == j \in 0..(NTAB - 1)
      y  == Combine(IF in THEN g.iv[j] ELSE oob, y2)
  IN  [g   |-> [idum |-> x, idum2 |-> y2, iy |-> y,
                iv |-> IF in THEN [g.iv EXCEPT ![j] = g.idum] ELSE g.iv],
       j   |-> j,
       ret |-> Deviate(y),
       mid |-> g]

\* hgb.c:505-509: the shuffle and the return, given the primary state x and
\* the secondary state y2 just computed and the slot index j.  An index
\* outside 0..NTAB-1 reads and writes outside iv: the value read is oob, the
\* write lands outside the generator state.  mid is the state at line 498.
Shuffle(g, x, y2, j, oob) ==
  LET in == j \in 0..(NTAB - 1)
      y  == Combine(IF in THEN g.iv[j] ELSE oob, y2)
  IN  [g   |-> [idum |-> x, idum2 |-> y2, iy |-> y,
                iv |-> IF in THEN [g.iv EXCEPT ![j] = x] ELSE g.iv],
       j   |-> j,
       ret |-> Deviate(y),
       mid |-> g]

\* what a read outside iv may find
Garbage == {Long(0), Long(IMM1)}

\* what iv[j] at line 505 may read outside the table: nothing when j is an
\* index of iv
Outside(j) == IF j \in 0..(NTAB - 1) THEN {Long(0)} ELSE Garbage

\* hgb.c:498-509: the part of ran2 executed on every call, from the state g
\* at line 498; the set of its possible outcomes
Advance(g) ==
  {Shuffle(g, Schrage(g.idum, IA1, IQ1, IR1, IM1),
           Schrage(g.idum2, IA2, IQ2, IR2, IM2), SlotIndex(g.iy), oob) :
     oob \in Outside(SlotIndex(g.iy))}

\* hgb.c:486: if (*idum <= 0)
Initializes(g) == LLe(g.idum, Long(0))

\* hgb.c:477-510: one call of ran2 from the generator state g; the set of
\* its possible outcomes
Ran2(g) == Advance(IF Initializes(g) THEN Initialize(g) ELSE g)

\* hgb.c:481-483: the statics of a process that has not called ran2 yet
Statics == [idum2 |-> Long(123456789), iy |-> Long(0),
            iv |-> [i \in 0..(NTAB - 1) |-> Long(0)]]

(***************************************************************************)
(* problem() (hgb.c:78-450): seed derivation and the ipert = 4 profile     *)
(***************************************************************************)

\* the processes of an MPI calculation, each running problem() on its Grid
Procs == {"p", "q"}

\* the value an int holds after an operation whose exact result is a, when
\* the result does not fit (two's complement wrap-around)
Wrap32(a) == <<((a[1] + 2^16) % 2^17) - 2^16, a[2]>>

\* hgb.c:114: the int operations of
\*   -1 - (ixs + pDomain->Nx1*(jxs + pDomain->Nx2*kxs))
\* in evaluation order, each on the int the previous one left; exact[i] is
\* the exact result of operation i, int[i] the int it leaves
HashTerms(g) ==
  LET e1 == LMul(Long(g.kxs), g.DNx2)
      i1 == Wrap32(e1)
      e2 == LAdd(Long(g.jxs), i1)
      i2 == Wrap32(e2)
      e3 == LMul(i2, g.DNx1)
      i3 == Wrap32(e3)
      e4 == LAdd(Long(g.ixs), i3)
      i4 == Wrap32(e4)
      e5 == LSub(Long(-1), i4)
      i5 == Wrap32(e5)
  IN  [exact |-> <<e1, e2, e3, e4, e5>>, int |-> <<i1, i2, i3, i4, i5>>]

\* some operation of hgb.c:114 overflows int (undefined behaviour)
HashOverflows(g) == \E i \in 1..5 : ~Fits32(HashTerms(g).exact[i])

\* hgb.c:111-114: the outcomes of the seed derivation on grid g: the value
\* stored in iseed, or, when an operation overflows, either the wrapped
\* value or a trap
DeriveSeed(g) ==
  IF HashOverflows(g)
    THEN {[trap |-> FALSE, iseed |-> HashTerms(g).int[5]],
          [trap |-> TRUE, iseed |-> Long(-1)]}
    ELSE {[trap |-> FALSE, iseed |-> HashTerms(g).exact[5]]}

\* hgb.c:81: Real xFP[160],dFP[160],vxFP[160],vyFP[160]
ProfileSize == 160

\* hgb.c:157,159: the x1min and x1max that ipert = 4 requires, in units of
\* 1e-4
X1MinFP == -47965
X1MaxFP == 47965

\* hgb.c:139-160: the ipert == 4 block on grid g, f being the data file
\* that fopen finds (whether it opens, the rows it holds) and x1min, x1max
\* the values par_getd returns.  fatal: ath_error was called; rows: the
\* leading entries of xFP, dFP, vxFP, vyFP that fscanf has set (a row the
\* file lacks leaves its entries as they were).
ReadProfile(g, f, x1min, x1max) ==
  LET n     == g.Nx1
      reads == n = 160 \/ n = 40
  IN  IF g.ipert # 4 THEN [fatal |-> FALSE, rows |-> 0]
      ELSE IF reads /\ ~f.opens THEN [fatal |-> TRUE, rows |-> 0]
      ELSE [fatal |-> x1min # X1MinFP \/ x1max # X1MaxFP,
            rows  |-> IF reads THEN (IF f.rows < n THEN f.rows ELSE n) ELSE 0]

\* hgb.c:214-216: dFP[i+pGrid->idisp] of the n-th cell of a row (i = is+n,
\* so the index is ixs+n) is an entry fscanf has set
EntryLoaded(g, rows, n) == g.ixs + n < rows /\ g.ixs + n < ProfileSize

\* the start indices (ixs, jxs, kxs) of a Grid
Triples == {<<0, 0, 0>>, <<4, 0, 0>>, <<0, 1, 0>>, <<4, 4, 4>>,
            <<0, 0, 512>>, <<0, 0, 1024>>}

\* the sizes (pDomain->Nx1, pDomain->Nx2) of a Domain
Domains == {<<4, 8>>, <<2048, 2048>>}

\* Grids of calculations with the uniform perturbation ipert = 2, on 1D
\* (Nx2 = 1) and 3D blocks of 8 cells
SeedGrids ==
  {[ixs |-> t[1], jxs |-> t[2], kxs |-> t[3], DNx1 |-> d[1], DNx2 |-> d[2],
    Nx1 |-> 8, Nx2 |-> n2, ipert |-> 2] :
     t \in Triples, d \in Domains, n2 \in {1, 8}}

\* Grids of calculations with the density wave ipert = 4, one Grid per
\* Domain, with and without ghost zones before the first cell
WaveGrids ==
  {[ixs |-> i, jxs |-> 0, kxs |-> 0, DNx1 |-> n, DNx2 |-> 8,
    Nx1 |-> n, Nx2 |-> 8, ipert |-> 4] : n \in {40, 80, 160}, i \in {0, 4}}

Grids == SeedGrids \cup WaveGrids

\* what fopen finds: no file, a file with all 160 rows, a file one row
\* short of the smaller table
Files == {[opens |-> FALSE, rows |-> 0], [opens |-> TRUE, rows |-> 160],
          [opens |-> TRUE, rows |-> 39]}

\* the values of x1min and x1max in the input file, in units of 1e-4
X1Mins == {X1MinFP, -50000}
X1Maxs == {X1MaxFP, 50000}

\* a process that has not called problem(): hgb.c:86 iseed = -1
NotEntered ==
  [pc |-> "idle", grid |-> CHOOSE g \in Grids : TRUE, iseed |-> Long(-1),
   file |-> CHOOSE f \in Files : TRUE, x1min |-> X1MinFP, x1max |-> X1MaxFP,
   rows |-> 0, cells |-> 0, stale |-> FALSE]

(***************************************************************************)
(* The process: callers' seed variables, ran2's statics, history           *)
(***************************************************************************)

\* bounds of the model
MaxCalls == 4
MaxSeeds == 1
MaxCells == 2

\* the seed variables handed to ran2 (iseed of problem(), hgb.c:86)
Streams == {"a", "b"}

\* seeds a caller stores in its seed variable; all fit 32 bits
Seeds == {Long(0), Long(-1), Long(-2), Long(-IMM1), Long(-IM1), Long(5)}

\* seeds beyond 32 bits, which a 64-bit long int holds: -2^40 and -2^36
WideSeeds == {<<-(2^25), 0>>, <<-(2^21), 0>>}

VARIABLES
  idum,     \* idum[s]: the caller's seed variable of stream s (*idum)
  idum2,    \* static long int idum2
  iy,       \* static long int iy
  iv,       \* static long int iv[NTAB]
  last,     \* the last call: its stream s, *idum on entry (arg), its j, its
            \* return value, whether it initialized, and the generator
            \* state at line 498 (mid)
  ub,       \* an access outside iv has happened
  seed0,    \* seed0[s]: the seed stream s was started with
  out,      \* out[s]: the values returned to stream s since it was seeded
  inits,    \* inits[s]: calls of stream s since it was seeded that initialized
  paused,   \* paused[s]: another stream was called after s's first call
  mixed,    \* mixed[s]: s was called again after that
  alone,    \* alone[s]: stream s run by itself in a process of its own:
            \* generator state g and returned values out
  ncalls,   \* calls of ran2 so far
  nseeds,   \* assignments to seed variables so far
  proc      \* proc[p]: problem() in process p: where it is (pc), its Grid,
            \* its iseed, the data file and bounds it read, the rows of
            \* the profile tables it has set, the cells it has written,
            \* whether a cell was set from an entry never loaded (stale)

vars == <<idum, idum2, iy, iv, last, ub, seed0, out, inits, paused, mixed,
          alone, ncalls, nseeds, proc>>

\* the generator state a call on stream s starts from
Gen(s) == [idum |-> idum[s], idum2 |-> idum2, iy |-> iy, iv |-> iv]

\* stream s in a fresh process, its seed variable set to v
Fresh(v) == [g |-> [idum |-> v, idum2 |-> Statics.idum2, iy |-> Statics.iy,
                    iv |-> Statics.iv],
             out |-> <<>>]

\* hgb.c:86: long int iseed = -1, in a process that has not called ran2
Init ==
  /\ idum = [s \in Streams |-> Long(-1)]
  /\ idum2 = Statics.idum2
  /\ iy = Statics.iy
  /\ iv = Statics.iv
  /\ last = [s |-> "none", arg |-> Long(-1), j |-> 0, ret |-> Deviate(Long(0)),
             init |-> FALSE, mid |-> Fresh(Long(-1)).g]
  /\ ub = FALSE
  /\ seed0 = [s \in Streams |-> Long(-1)]
  /\ out = [s \in Streams |-> <<>>]
  /\ inits = [s \in Streams |-> 0]
  /\ paused = [s \in Streams |-> FALSE]
  /\ mixed = [s \in Streams |-> FALSE]
  /\ alone = [s \in Streams |-> Fresh(Long(-1))]
  /\ ncalls = 0
  /\ nseeds = 0
  /\ proc = [p \in Procs |-> NotEntered]

\* hgb.c:114: the caller stores the seed v in its seed variable
Seed(s, v) ==
  /\ nseeds < MaxSeeds
  /\ nseeds' = nseeds + 1
  /\ idum' = [idum EXCEPT ![s] = v]
  /\ seed0' = [seed0 EXCEPT ![s] = v]
  /\ out' = [out EXCEPT ![s] = <<>>]
  /\ inits' = [inits EXCEPT ![s] = 0]
  /\ paused' = [paused EXCEPT ![s] = FALSE]
  /\ mixed' = [mixed EXCEPT ![s] = FALSE]
  /\ alone' = [alone EXCEPT ![s] = Fresh(v)]
  /\ UNCHANGED <<idum2, iy, iv, last, ub, ncalls, proc>>

\* hgb.c:182-196: ran2(&iseed) on stream s, here (r) and in the process
\* where s runs alone (a)
Call(s) ==
  /\ ncalls < MaxCalls
  /\ ncalls' = ncalls + 1
  /\ \E r \in Ran2(Gen(s)), a \in Ran2(alone[s].g) :
         /\ idum' = [idum EXCEPT ![s] = r.g.idum]
         /\ idum2' = r.g.idum2
         /\ iy' = r.g.iy
         /\ iv' = r.g.iv
         /\ last' = [s |-> s, arg |-> idum[s], j |-> r.j, ret |-> r.ret,
                     init |-> Initializes(Gen(s)), mid |-> r.mid]
         /\ ub' = (ub \/ r.j \notin 0..(NTAB - 1))
         /\ out' = [out EXCEPT ![s] = Append(@, r.ret)]
         /\ inits' = [inits EXCEPT ![s] = @ + (IF Initializes(Gen(s)) THEN 1 ELSE 0)]
         /\ alone' = [alone EXCEPT ![s] = [g |-> a.g, out |-> Append(@.out, a.ret)]]
  /\ paused' = [t \in Streams |-> IF t = s THEN paused[t]
                                  ELSE paused[t] \/ Len(out[t]) > 0]
  /\ mixed' = [mixed EXCEPT ![s] = @ \/ paused[s]]
  /\ UNCHANGED <<seed0, nseeds, proc>>

Next ==
  \/ \E s \in Streams, v \in Seeds : Seed(s, v)
  \/ \E s \in Streams : Call(s)

Spec == Init /\ [][Next]_vars

\* the same process on a build whose long int has 64 bits, where the seed
\* variable can hold a value beyond 32 bits
NextWide ==
  \/ \E s \in Streams, v \in Seeds \cup WideSeeds : Seed(s, v)
  \/ \E s \in Streams : Call(s)

SpecWide == Init /\ [][NextWide]_vars

\* the generator, which the steps of problem() below leave alone (the
\* draws of ipert = 1 are the action Call)
genvars == <<idum, idum2, iy, iv, last, ub, seed0, out, inits, paused, mixed,
             alone, ncalls, nseeds>>

\* hgb.c:78-114: problem() is called on Grid g: a 1D grid is a fatal
\* error; otherwise the seed is derived from the start indices
Enter(p, g) ==
  /\ proc[p].pc = "idle"
  /\ IF g.Nx2 = 1
       THEN proc' = [proc EXCEPT ![p] = [@ EXCEPT !.pc = "fatal", !.grid = g]]
       ELSE \E d \in DeriveSeed(g) :
              proc' = [proc EXCEPT ![p] =
                         [@ EXCEPT !.pc = IF d.trap THEN "trap" ELSE "seeded",
                                   !.grid = g, !.iseed = d.iseed]]
  /\ UNCHANGED genvars

\* hgb.c:116-167: the box size and wavenumbers, then for ipert = 4 the
\* profile tables and the test of x1min and x1max
LoadProfile(p, f, x1min, x1max) ==
  /\ proc[p].pc = "seeded"
  /\ LET r == ReadProfile(proc[p].grid, f, x1min, x1max)
     IN  proc' = [proc EXCEPT ![p] =
                    [@ EXCEPT !.pc = IF r.fatal THEN "fatal" ELSE "cells",
                              !.file = f, !.x1min = x1min, !.x1max = x1max,
                              !.rows = r.rows]]
  /\ UNCHANGED genvars

\* hgb.c:171-257: the next cell of the first row is given its density and
\* momenta; with ipert = 4 they come from dFP, vxFP, vyFP
InitCell(p) ==
  /\ proc[p].pc = "cells"
  /\ proc[p].cells < MaxCells
  /\ proc[p].cells < proc[p].grid.Nx1
  /\ proc' = [proc EXCEPT ![p] =
                [@ EXCEPT !.cells = @ + 1,
                          !.stale = @ \/ (proc[p].grid.ipert = 4 /\
                                          ~EntryLoaded(proc[p].grid, proc[p].rows,
                                                       proc[p].cells))]]
  /\ UNCHANGED genvars

NextProblem ==
  \/ \E p \in Procs, g \in Grids : Enter(p, g)
  \/ \E p \in Procs, f \in Files, x1min \in X1Mins, x1max \in X1Maxs :
       LoadProfile(p, f, x1min, x1max)
  \/ \E p \in Procs : InitCell(p)

SpecProblem == Init /\ [][NextProblem]_vars

(***************************************************************************)
(* Properties                                                              *)
(***************************************************************************)

\* v is a seed of -(IM1-1)..0
SeedInDomain(v) == LLe(Long(-IMM1), v) /\ LLe(v, Long(0))

\* y is in 1..IM1-1
InRange1(y) == LLe(Long(1), y) /\ LLe(y, Long(IMM1))

\* the returned double r satisfies 0 < r < 1: it is RNMX, or num/IM1 with
\* 0 < num < IM1
InUnitInterval(r) == r.rnmx \/ (LLt(Long(0), r.num) /\ LLt(r.num, Long(IM1)))

Min(m, n) == IF m < n THEN m ELSE n

\* C1: on a stream started with a seed of -(IM1-1)..0, every call returns
\* iy/IM1 with the combined integer iy in 1..IM1-1 (never the clamp value),
\* so the value returned is strictly between 0 and 1.
C1_Range ==
  \A s \in Streams :
    SeedInDomain(seed0[s]) =>
      \A i \in 1..Len(out[s]) :
        /\ InRange1(out[s][i].num)
        /\ ~out[s][i].rnmx
        /\ InUnitInterval(out[s][i])

\* a second or later call of such a stream in which iv[j]-idum2 was below 1
\* and the correction brought it back to 1..IM1-1
C1_Witness ==
  /\ last.s \in Streams
  /\ SeedInDomain(seed0[last.s])
  /\ Len(out[last.s]) >= 2
  /\ LLt(LSub(last.mid.iv[last.j], idum2), Long(1))
  /\ iy = LAdd(LSub(last.mid.iv[last.j], idum2), Long(IMM1))

\* C2: two runs that start with a first call on the same negative seed
\* return the same values call for call, although the second run starts
\* from the statics the first one left behind.
C2_Determinism ==
  \A s, t \in Streams :
    (seed0[s] = seed0[t] /\ LLt(seed0[s], Long(0)) /\ ~mixed[s] /\ ~mixed[t]) =>
      \A i \in 1..Min(Len(out[s]), Len(out[t])) : out[s][i] = out[t][i]

\* two complete runs of two calls each on the same negative seed, the
\* second started after the first had changed idum2, iy and iv
C2_Witness ==
  \E s, t \in Streams :
    /\ s # t
    /\ seed0[s] = seed0[t] /\ LLt(seed0[s], Long(0))
    /\ ~mixed[s] /\ ~mixed[t]
    /\ paused[s] /\ ~paused[t]
    /\ Len(out[s]) >= 2 /\ Len(out[t]) >= 2

\* C3: whatever integer the seed variable holds on the first call, no call
\* reads or writes outside the shuffle table (j stays in 0..NTAB-1) and
\* every call returns a value strictly between 0 and 1.
C3_Total ==
  /\ ~ub
  /\ last.s \in Streams => (last.j \in 0..(NTAB - 1) /\ InUnitInterval(last.ret))

\* C4: on a stream started with a non-positive seed, the first call
\* initializes and leaves the primary state positive, and no later call
\* initializes again.
C4_InitOnce ==
  \A s \in Streams :
    (LLe(seed0[s], Long(0)) /\ Len(out[s]) >= 1) =>
      (inits[s] = 1 /\ LLt(Long(0), idum[s]))

\* C5: a stream started with seed 0 and a stream started with seed -1, each
\* alone in its process, are in the same generator state after the same
\* number of calls and have returned the same values.
C5_ZeroIsMinusOne ==
  \A s, t \in Streams :
    (/\ seed0[s] = Long(0) /\ seed0[t] = Long(-1)
     /\ Len(alone[s].out) = Len(alone[t].out)
     /\ Len(alone[s].out) >= 1) =>
      (alone[s].g = alone[t].g /\ alone[s].out = alone[t].out)

\* both streams after two calls each
C5_Witness ==
  \E s, t \in Streams :
    /\ seed0[s] = Long(0) /\ seed0[t] = Long(-1)
    /\ Len(alone[s].out) = 2 /\ Len(alone[t].out) = 2

\* C6 as claimed: each stream returns what it returns when it runs alone,
\* however the calls on the two streams interleave.
C6_Isolation ==
  \A s \in Streams :
    LLe(seed0[s], Long(0)) => out[s] = alone[s].out

\* C6: a call on one stream never writes the other stream's seed variable,
\* and a stream started with a non-positive seed returns what it returns
\* alone as long as no call on the other stream falls between two of its
\* calls (idum2, iy and iv are shared by the streams of a process).
C6_IsolationUnlessInterleaved ==
  \A s \in Streams :
    /\ Len(out[s]) = 0 => idum[s] = seed0[s]
    /\ (LLe(seed0[s], Long(0)) /\ ~mixed[s]) => out[s] = alone[s].out

\* two streams with different seeds, run one after the other, two calls each
C6_Witness ==
  \E s, t \in Streams :
    /\ seed0[s] # seed0[t]
    /\ LLe(seed0[s], Long(0)) /\ LLe(seed0[t], Long(0))
    /\ ~mixed[s] /\ ~mixed[t] /\ paused[s]
    /\ Len(out[s]) >= 2 /\ Len(out[t]) >= 2

\* (u + v) mod m for u, v in 0..m-1, without exceeding m
AddMod(u, v, m) == IF u >= m - v THEN u - (m - v) ELSE u + v

Twice(h, m) == AddMod(h, h, m)

\* (a * x) mod m for x in 0..m-1, by doubling
RECURSIVE MulMod(_, _, _)
MulMod(a, x, m) ==
  IF a = 0 THEN 0
  ELSE AddMod(IF a % 2 = 1 THEN x ELSE 0, Twice(MulMod(a \div 2, x, m), m), m)

\* the n-th iterate of x -> (IA1 * x) mod IM1 from x (0 is its fixed point)
RECURSIVE Iterate(_, _)
Iterate(n, x) ==
  IF n = 0 \/ x = 0 THEN x ELSE Iterate(n - 1, MulMod(IA1, x, IM1))

\* tab[i] is the (40-i)-th iterate for every i in 0..j, x being the
\* (40-j)-th
RECURSIVE TableIsIterates(_, _, _)
TableIsIterates(tab, j, x) ==
  IF j < 0 THEN TRUE
  ELSE tab[j] = Long(x) /\ TableIsIterates(tab, j - 1, MulMod(IA1, x, IM1))

\* the magnitude of a is below 2^31
Mag31(a) == Fits32(a) /\ Fits32(LNeg(a))

\* C7: when the initialization branch runs from a normalized seed s0 in
\* 1..IM1-1, the state at line 498 has idum2 = s0, iv[j] = the (40-j)-th
\* iterate of x -> (40014*x) mod 2147483563 from s0 for every j (so the
\* first 8 iterates are stored nowhere), and iy = iv[0] = idum = the 40th.
C7_Initialization ==
  (last.s \in Streams /\ last.init /\ Fits32(last.arg)) =>
    LET s0 == IF ToInt(last.arg) = 0 THEN 1 ELSE -ToInt(last.arg)
        m  == last.mid
    IN  (1 <= s0 /\ s0 <= IM1 - 1) =>
          /\ m.idum2 = Long(s0)
          /\ TableIsIterates(m.iv, NTAB - 1, Iterate(9, s0))
          /\ m.iy = m.iv[0]
          /\ m.idum = m.iv[0]
          /\ m.idum = Long(Iterate(40, s0))

\* an initialization from seed -2 in a process whose statics earlier calls
\* have changed
C7_Witness ==
  /\ last.s \in Streams /\ last.init
  /\ last.arg = Long(-2)
  /\ ncalls >= 2

\* the values the last call produced: the states, the cached value and,
\* when it initialized, the table
StateSamples ==
  {ToInt(idum[s]) : s \in Streams} \cup {ToInt(idum2), ToInt(iy)}
    \cup (IF last.init THEN {ToInt(iv[i]) : i \in 0..(NTAB - 1)} ELSE {})

\* those, and the ends of the two domains
Samples == StateSamples \cup {1, IQ2 - 1, IQ2, IQ1 - 1, IQ1, IM2 - 1, IM2, IM1 - 1}

\* C8: on 1..IM1-1 the primary step equals x -> (40014*x) mod 2147483563 and
\* on 1..IM2-1 the secondary step equals y -> (40692*y) mod 2147483399, and
\* the results are again in 1..IM1-1 and 1..IM2-1.
C8_SchrageIsModMul ==
  \A x \in Samples :
    /\ (1 <= x /\ x <= IM1 - 1) =>
         LET r == Schrage(Long(x), IA1, IQ1, IR1, IM1)
         IN  r = Long(MulMod(IA1, x, IM1)) /\ LLe(Long(1), r) /\ LLe(r, Long(IM1 - 1))
    /\ (1 <= x /\ x <= IM2 - 1) =>
         LET r == Schrage(Long(x), IA2, IQ2, IR2, IM2)
         IN  r = Long(MulMod(IA2, x, IM2)) /\ LLe(Long(1), r) /\ LLe(r, Long(IM2 - 1))

\* after a call, a value of 1..IM1-1 whose primary step needs the added IM1
\* and a value of 1..IM2-1 whose secondary step needs the added IM2
C8_Witness ==
  /\ ncalls >= 1
  /\ \E x \in StateSamples :
       /\ 1 <= x /\ x <= IM1 - 1
       /\ LLt(SchrageTerms(Long(x), IA1, IQ1, IR1)[6], Long(0))
  /\ \E y \in StateSamples :
       /\ 1 <= y /\ y <= IM2 - 1
       /\ LLt(SchrageTerms(Long(y), IA2, IQ2, IR2)[6], Long(0))

AllMag31(t) == \A i \in 1..Len(t) : Mag31(t[i])

\* every intermediate value of a step from x has a magnitude below 2^31
StepFits(x, IA, IQ, IR, IM) ==
  /\ AllMag31(SchrageTerms(Long(x), IA, IQ, IR))
  /\ Mag31(Schrage(Long(x), IA, IQ, IR, IM))

\* C9: for a primary state in 1..IM1-1 and a secondary state in 1..IM2-1,
\* the quotient, the products, their difference and the sum with the
\* modulus in both steps, and iv[j]-idum2 and iy+IMM1 in the last call, all
\* have a magnitude below 2^31.
C9_NoOverflow ==
  /\ \A x \in Samples :
       /\ (1 <= x /\ x <= IM1 - 1) => StepFits(x, IA1, IQ1, IR1, IM1)
       /\ (1 <= x /\ x <= IM2 - 1) => StepFits(x, IA2, IQ2, IR2, IM2)
  /\ (/\ last.s \in Streams
      /\ InRange1(last.mid.idum)
      /\ LLe(Long(1), last.mid.idum2) /\ LLe(last.mid.idum2, Long(IM2 - 1))) =>
       /\ Mag31(idum[last.s]) /\ Mag31(idum2)
       /\ last.j \in 0..(NTAB - 1)
       /\ Mag31(LSub(last.mid.iv[last.j], idum2))
       /\ Mag31(iy)

\* a call from states in both domains in which the secondary step needed
\* the added IM2, iv[j]-idum2 was negative and IMM1 was added
C9_Witness ==
  /\ last.s \in Streams
  /\ InRange1(last.mid.idum)
  /\ LLe(Long(1), last.mid.idum2) /\ LLe(last.mid.idum2, Long(IM2 - 1))
  /\ last.j \in 0..(NTAB - 1)
  /\ LLt(LSub(last.mid.iv[last.j], idum2), Long(0))
  /\ LLt(SchrageTerms(last.mid.idum2, IA2, IQ2, IR2)[6], Long(0))

\* the last call was on a stream whose seed variable the caller has not
\* overwritten since
LastCallStands == last.s \in Streams /\ Len(out[last.s]) >= 1

\* C10: after every call, with m the state at line 498: j = m.iy / NDIV with
\* NDIV = 1 + (IM1-1)/32 lies in 0..31; the new iy is m.iv[j] minus the new
\* idum2, plus IM1-1 when that is below 1; slot j holds the new primary
\* state; the other 31 slots are as in m.
C10_ShuffleStep ==
  LastCallStands =>
    LET m == last.mid
        j == ToInt(m.iy) \div (1 + (IM1 - 1) \div 32)
        d == ToInt(m.iv[j]) - ToInt(idum2)
    IN  /\ Fits32(m.iy) /\ ToInt(m.iy) >= 0
        /\ last.j = j
        /\ j \in 0..31
        /\ iy = Long(IF d < 1 THEN d + (IM1 - 1) ELSE d)
        /\ iv[j] = idum[last.s]
        /\ \A i \in 0..31 : i # j => iv[i] = m.iv[i]
        /\ Cardinality({i \in 0..31 : i # j}) = 31

\* a call that did not initialize, used a slot other than 0 and changed it
C10_Witness ==
  /\ LastCallStands
  /\ ~last.init
  /\ last.j \in 1..31
  /\ iv[last.j] # last.mid.iv[last.j]
  /\ last.mid.iv[last.j] # Long(0)

\* process p has passed hgb.c:114
PastSeed(p) ==
  proc[p].pc \in {"seeded", "cells"} \/ (proc[p].pc = "fatal" /\ proc[p].grid.Nx2 # 1)

Abs(n) == IF n < 0 THEN -n ELSE n

\* the Grids of p and q are blocks of one Domain whose start indices are
\* non-negative, differ, and differ by less than Nx1 in ixs and by less
\* than Nx2 in jxs
DistinctBlocks(p, q) ==
  LET g == proc[p].grid
      h == proc[q].grid
  IN  /\ g.DNx1 = h.DNx1 /\ g.DNx2 = h.DNx2
      /\ \A n \in {g.ixs, g.jxs, g.kxs, h.ixs, h.jxs, h.kxs} : n >= 0
      /\ <<g.ixs, g.jxs, g.kxs>> # <<h.ixs, h.jxs, h.kxs>>
      /\ Abs(g.ixs - h.ixs) < g.DNx1
      /\ Abs(g.jxs - h.jxs) < g.DNx2

\* C11: every process that derives its seed at hgb.c:114 gets a strictly
\* negative one, and two processes whose start-index triples differ (ixs by
\* less than Nx1, jxs by less than Nx2, none negative) get different seeds.
C11_DistinctNegativeSeeds ==
  /\ \A p \in Procs : proc[p].pc # "trap"
  /\ \A p \in Procs : PastSeed(p) => LLt(proc[p].iseed, Long(0))
  /\ \A p, q \in Procs :
       (PastSeed(p) /\ PastSeed(q) /\ DistinctBlocks(p, q)) =>
         proc[p].iseed # proc[q].iseed

\* C12: with ipert = 4 a process writes a cell only after it has opened the
\* data file of its resolution (Nx1 = 160 or Nx1 = 40), loaded a table of
\* Nx1 rows and found x1min = -4.7965 and x1max = 4.7965.
C12_WaveNeedsProfile ==
  \A p \in Procs :
    (proc[p].grid.ipert = 4 /\ proc[p].cells >= 1) =>
      /\ proc[p].grid.Nx1 \in {40, 160}
      /\ proc[p].file.opens
      /\ proc[p].rows = proc[p].grid.Nx1
      /\ proc[p].x1min = X1MinFP /\ proc[p].x1max = X1MaxFP

====
